---- MODULE Spec2Model ----
(***************************************************************************)
(* A model of the path tracer `ray`: intervals, axis-aligned boxes, the    *)
(* three primitives, the BVH and the staging list (src/src/aabb.rs,        *)
(* interval.rs, geo.rs, hit.rs, bvh.rs) and the camera's render loop       *)
(* (src/src/camera.rs).                                                    *)
(*                                                                         *)
(* f64 values are modelled as extended rationals n/d in lowest terms with  *)
(* d >= 0: d > 0 is the finite value n/d, (1,0) is +inf, (-1,0) is -inf    *)
(* and (0,0) is NaN.  Coordinates of the scenes and rays are small         *)
(* integers, on which the code's f64 operations are computed here without  *)
(* rounding.                                                               *)
(***************************************************************************)
EXTENDS Integers, Sequences, FiniteSets, TLC

(***************************************************************************)
(* f64 arithmetic on extended rationals                                    *)
(***************************************************************************)
Abs(x) == IF x < 0 THEN -x ELSE x

RECURSIVE Gcd(_, _)
Gcd(a, b) == IF b = 0 THEN a ELSE Gcd(b, a % b)

\* the finite value n/d (d # 0) in lowest terms
Num(n, d) ==
    LET s == IF d < 0 THEN -1 ELSE 1
        g == Gcd(Abs(n), Abs(d))
    IN  [n |-> (s * n) \div g, d |-> (s * d) \div g]

FInt(k) == [n |-> k, d |-> 1]
PInf == [n |-> 1, d |-> 0]
NInf == [n |-> -1, d |-> 0]
NaN == [n |-> 0, d |-> 0]
Zero == FInt(0)
One == FInt(1)

IsNaN(a) == a.d = 0 /\ a.n = 0
IsInf(a) == a.d = 0 /\ a.n # 0
IsFin(a) == a.d > 0
Sign(a) == IF a.n > 0 THEN 1 ELSE IF a.n < 0 THEN -1 ELSE 0

\* the f64 comparisons: every comparison with NaN is false
FLt(a, b) ==
    /\ ~IsNaN(a)
    /\ ~IsNaN(b)
    /\ IF a.d = 0 /\ b.d = 0 THEN a.n < b.n ELSE a.n * b.d < b.n * a.d
FGt(a, b) == FLt(b, a)
FLe(a, b) == ~IsNaN(a) /\ ~IsNaN(b) /\ ~FLt(b, a)
FGe(a, b) == FLe(b, a)

FNeg(a) == [n |-> -a.n, d |-> a.d]
FAdd(a, b) ==
    IF IsNaN(a) \/ IsNaN(b) THEN NaN
    ELSE IF IsInf(a) THEN (IF IsInf(b) /\ b.n # a.n THEN NaN ELSE a)
    ELSE IF IsInf(b) THEN b
    ELSE Num(a.n * b.d + b.n * a.d, a.d * b.d)
FSub(a, b) == FAdd(a, FNeg(b))
FMul(a, b) ==
    IF IsNaN(a) \/ IsNaN(b) THEN NaN
    ELSE IF a.d = 0 \/ b.d = 0
         THEN (IF Sign(a) * Sign(b) = 0 THEN NaN
               ELSE IF Sign(a) * Sign(b) > 0 THEN PInf ELSE NInf)
    ELSE Num(a.n * b.n, a.d * b.d)
\* 1.0 / a, the zero being +0.0
FRecip(a) ==
    IF IsNaN(a) THEN NaN
    ELSE IF IsInf(a) THEN Zero
    ELSE IF a.n = 0 THEN PInf
    ELSE Num(a.d, a.n)
FDiv(a, b) == FMul(a, FRecip(b))

\* f64::min and f64::max: a NaN operand is ignored
FMin(a, b) == IF IsNaN(a) THEN b ELSE IF IsNaN(b) THEN a ELSE IF FLt(b, a) THEN b ELSE a
FMax(a, b) == IF IsNaN(a) THEN b ELSE IF IsNaN(b) THEN a ELSE IF FLt(a, b) THEN b ELSE a

\* f64::sqrt on the integers whose root is an integer (the inputs of the
\* model are chosen so that no other root is taken)
IsSquare(k) == k >= 0 /\ \E r \in 0..k : r * r = k
ISqrt(k) == CHOOSE r \in 0..k : r * r = k

(***************************************************************************)
(* Vec3 (src/src/vec3.rs): integer vectors are <<x, y, z>> of integers,    *)
(* points and normals computed by a hit are <<x, y, z>> of f64 values.     *)
(***************************************************************************)
Axes == <<"X", "Y", "Z">>
AxisIdx(axis) == CASE axis = "X" -> 1 [] axis = "Y" -> 2 [] axis = "Z" -> 3

VAdd(a, b) == <<a[1] + b[1], a[2] + b[2], a[3] + b[3]>>
VSub(a, b) == <<a[1] - b[1], a[2] - b[2], a[3] - b[3]>>
VNeg(a) == <<-a[1], -a[2], -a[3]>>
Dot(a, b) == a[1] * b[1] + a[2] * b[2] + a[3] * b[3]
Cross(a, b) ==
    <<a[2] * b[3] - a[3] * b[2], a[3] * b[1] - a[1] * b[3], a[1] * b[2] - a[2] * b[1]>>
LengthSquared(a) == Dot(a, a)

FVec(a) == <<FInt(a[1]), FInt(a[2]), FInt(a[3])>>
FVNeg(a) == <<FNeg(a[1]), FNeg(a[2]), FNeg(a[3])>>
FVScale(a, s) == <<FMul(a[1], s), FMul(a[2], s), FMul(a[3], s)>>
FVAdd(a, b) == <<FAdd(a[1], b[1]), FAdd(a[2], b[2]), FAdd(a[3], b[3])>>
FVSub(a, b) == <<FSub(a[1], b[1]), FSub(a[2], b[2]), FSub(a[3], b[3])>>
FDot(a, b) == FAdd(FAdd(FMul(a[1], b[1]), FMul(a[2], b[2])), FMul(a[3], b[3]))
\* Vec3::unit of an integer vector whose length is an integer
Unit(a) == FVScale(FVec(a), FRecip(FInt(ISqrt(LengthSquared(a)))))

(***************************************************************************)
(* Ray (src/src/ray.rs)                                                    *)
(***************************************************************************)
Ray(origin, dir) == [origin |-> origin, direction |-> dir]
RayAt(ray, t) == FVAdd(FVec(ray.origin), FVScale(FVec(ray.direction), t))

(***************************************************************************)
(* Interval (src/src/interval.rs)                                          *)
(***************************************************************************)
Interval(min, max) == [min |-> min, max |-> max]
IntervalDefault == Interval(Zero, Zero)
IntervalEmpty == Interval(PInf, NInf)
\* a merge that keeps the second interval's maximum
IntervalMergeKeepsMax(a, b) == Interval(FMin(a.min, b.min), b.max)
IntervalMerge(a, b) == Interval(FMin(a.min, b.min), FMax(a.max, b.max))
IntervalSize(a) == FSub(a.max, a.min)
Contains(a, x) == FGe(x, a.min) /\ FLe(x, a.max)
Surrounds(a, x) == FGt(x, a.min) /\ FLt(x, a.max)

(***************************************************************************)
(* Aabb (src/src/aabb.rs)                                                  *)
(***************************************************************************)
Aabb(x, y, z) == [x |-> x, y |-> y, z |-> z]
AabbDefault == Aabb(IntervalDefault, IntervalDefault, IntervalDefault)
AabbGet(box, axis) ==
    CASE axis = "X" -> box.x [] axis = "Y" -> box.y [] axis = "Z" -> box.z

FromPointsAxis(a, b) ==
    IF a <= b THEN Interval(FInt(a), FInt(b)) ELSE Interval(FInt(b), FInt(a))
FromPoints(a, b) ==
    Aabb(FromPointsAxis(a[1], b[1]), FromPointsAxis(a[2], b[2]), FromPointsAxis(a[3], b[3]))

\* a longest_axis whose comparisons are not strict: ties go to X, then Y
LongestAxisTiesToX(box) ==
    IF FGe(IntervalSize(box.x), IntervalSize(box.y)) /\ FGe(IntervalSize(box.x), IntervalSize(box.z))
    THEN "X"
    ELSE IF FGe(IntervalSize(box.y), IntervalSize(box.z)) THEN "Y" ELSE "Z"
LongestAxis(box) ==
    IF FGt(IntervalSize(box.x), IntervalSize(box.y)) /\ FGt(IntervalSize(box.x), IntervalSize(box.z))
    THEN "X"
    ELSE IF FGt(IntervalSize(box.y), IntervalSize(box.z)) THEN "Y" ELSE "Z"

AabbMerge(a, b) ==
    Aabb(IntervalMerge(a.x, b.x), IntervalMerge(a.y, b.y), IntervalMerge(a.z, b.z))

\* one turn of the loop of Aabb::hit: the narrowed [min, max] on one axis
SlabNarrow(box, ray, ray_t, axis) ==
    LET iv == AabbGet(box, axis)
        i == AxisIdx(axis)
        adinv == FRecip(FInt(ray.direction[i]))
        t0 == FMul(FSub(iv.min, FInt(ray.origin[i])), adinv)
        t1 == FMul(FSub(iv.max, FInt(ray.origin[i])), adinv)
        lo == IF FLt(t0, t1)
              THEN (IF FGt(t0, ray_t.min) THEN t0 ELSE ray_t.min)
              ELSE (IF FGt(t1, ray_t.min) THEN t1 ELSE ray_t.min)
        hi == IF FLt(t0, t1)
              THEN (IF FLt(t1, ray_t.max) THEN t1 ELSE ray_t.max)
              ELSE (IF FLt(t0, ray_t.max) THEN t0 ELSE ray_t.max)
    IN  Interval(lo, hi)

RECURSIVE AabbHitFrom(_, _, _, _)
AabbHitFrom(box, ray, ray_t, k) ==
    IF k > 3 THEN TRUE
    ELSE LET nt == SlabNarrow(box, ray, ray_t, Axes[k])
         IN  IF FLe(nt.max, nt.min) THEN FALSE ELSE AabbHitFrom(box, ray, nt, k + 1)

AabbHit(box, ray, ray_t) == AabbHitFrom(box, ray, ray_t, 1)

\* Ordering of Aabb::compare: f64::total_cmp of the two minima on `axis`
\* (the minima of the model are finite, where total_cmp is the numeric order)
CompareLess(a, b, axis) == FLt(AabbGet(a, axis).min, AabbGet(b, axis).min)

FCross(a, b) ==
    <<FSub(FMul(a[2], b[3]), FMul(a[3], b[2])),
      FSub(FMul(a[3], b[1]), FMul(a[1], b[3])),
      FSub(FMul(a[1], b[2]), FMul(a[2], b[1]))>>

None == [some |-> FALSE]
Some(v) == [some |-> TRUE, val |-> v]

\* `x > -f64::EPSILON && x < f64::EPSILON`: on the model's rationals, whose
\* denominators are far below 1/EPSILON, only zero lies in that range
NearZero(x) == x = Zero

(***************************************************************************)
(* HitRecord (src/src/hit.rs)                                              *)
(***************************************************************************)
\* a record that keeps the geometric normal, whichever way it faces
HitRecordNewNoFlip(point, normal, t, ray, material) ==
    [point |-> point, normal |-> normal, t |-> t,
     front_face |-> FLt(FDot(FVec(ray.direction), normal), Zero),
     material |-> material]
HitRecordNew(point, normal, t, ray, material) ==
    LET front_face == FLt(FDot(FVec(ray.direction), normal), Zero)
    IN  [point |-> point,
         normal |-> IF front_face THEN normal ELSE FVNeg(normal),
         t |-> t,
         front_face |-> front_face,
         material |-> material]

(***************************************************************************)
(* The primitives (src/src/geo.rs)                                         *)
(***************************************************************************)
QuadNew(origin, u, v, material) ==
    LET bbox_d1 == FromPoints(origin, VAdd(VAdd(origin, u), v))
        bbox_d2 == FromPoints(VAdd(origin, u), VAdd(origin, u))
        n == Cross(u, v)
    IN  [kind |-> "quad", origin |-> origin, u |-> u, v |-> v,
         w |-> FVScale(FVec(n), FRecip(FInt(Dot(n, n)))),
         normal |-> Unit(n),
         bbox |-> AabbMerge(bbox_d1, bbox_d2),
         material |-> material]

SphereNew(center, radius, material) ==
    LET rvec == <<radius, radius, radius>>
    IN  [kind |-> "sphere", center |-> center, radius |-> radius,
         bbox |-> FromPoints(VSub(center, rvec), VAdd(center, rvec)),
         material |-> material]

\* Sphere::new with its assertion.  The radius is an f64 with its sign bit:
\* neg with mag = 0 is -0.0.  assert!(radius.is_sign_positive()) looks at
\* the sign bit alone.
Radius(neg, mag) == [neg |-> neg, mag |-> mag]
IsSignPositive(radius) == ~radius.neg
SphereNewChecked(center, radius, material) ==
    IF IsSignPositive(radius)
    THEN [aborted |-> FALSE, sphere |-> SphereNew(center, radius.mag, material)]
    ELSE [aborted |-> TRUE]

Min3(a, b, c) == IF a <= b /\ a <= c THEN a ELSE IF b <= c THEN b ELSE c
Max3(a, b, c) == IF a >= b /\ a >= c THEN a ELSE IF b >= c THEN b ELSE c
TriangleNew(a, b, c, material) ==
    LET iv(i) == Interval(FInt(Min3(a[i], b[i], c[i])), FInt(Max3(a[i], b[i], c[i])))
    IN  [kind |-> "triangle", a |-> a, b |-> b, c |-> c,
         normal |-> Unit(Cross(VSub(b, a), VSub(c, a))),
         bbox |-> Aabb(iv(1), iv(2), iv(3)),
         material |-> material]

QuadHit(q, ray, ray_t) ==
    LET denom == FDot(q.normal, FVec(ray.direction))
        d == FDot(q.normal, FVec(q.origin))
        t == FDiv(FSub(d, FDot(q.normal, FVec(ray.origin))), denom)
        intersection_point == RayAt(ray, t)
        planar_hit_point == FVSub(intersection_point, FVec(q.origin))
        alpha == FDot(q.w, FCross(planar_hit_point, FVec(q.v)))
        beta == FDot(q.w, FCross(FVec(q.u), planar_hit_point))
        unit_interval == Interval(Zero, One)
    IN  IF NearZero(denom) THEN None
        ELSE IF ~Contains(ray_t, t) THEN None
        ELSE IF ~Contains(unit_interval, alpha) \/ ~Contains(unit_interval, beta) THEN None
        ELSE Some(HitRecordNew(intersection_point, q.normal, t, ray, q.material))

SphereHit(s, ray, ray_t) ==
    LET oc == VSub(s.center, ray.origin)
        a == LengthSquared(ray.direction)
        h == Dot(ray.direction, oc)
        c == LengthSquared(oc) - s.radius * s.radius
        discriminant == h * h - a * c
        dsqrt == ISqrt(discriminant)
        root1 == FDiv(FInt(h - dsqrt), FInt(a))
        root2 == FDiv(FInt(h + dsqrt), FInt(a))
        rec(root) ==
            LET point == RayAt(ray, root)
                normal == FVScale(FVSub(point, FVec(s.center)), FRecip(FInt(s.radius)))
            IN  Some(HitRecordNew(point, normal, root, ray, s.material))
    IN  IF discriminant < 0 THEN None
        ELSE IF Surrounds(ray_t, root1) THEN rec(root1)
        ELSE IF Surrounds(ray_t, root2) THEN rec(root2)
        ELSE None

TriangleHit(tr, ray, ray_t) ==
    LET e1 == VSub(tr.b, tr.a)
        e2 == VSub(tr.c, tr.a)
        ray_cross_e2 == Cross(ray.direction, e2)
        det == Dot(e1, ray_cross_e2)
        inv_det == FRecip(FInt(det))
        s == VSub(ray.origin, tr.a)
        u == FMul(inv_det, FInt(Dot(s, ray_cross_e2)))
        s_cross_e1 == Cross(s, e1)
        v == FMul(inv_det, FInt(Dot(ray.direction, s_cross_e1)))
        t == FMul(inv_det, FInt(Dot(e2, s_cross_e1)))
    IN  IF NearZero(FInt(det)) THEN None
        ELSE IF FLt(u, Zero) \/ FGt(u, One) THEN None
        ELSE IF FLt(v, Zero) \/ FGt(FAdd(u, v), One) THEN None
        ELSE IF ~Surrounds(ray_t, t) THEN None
        ELSE Some(HitRecordNew(RayAt(ray, t), tr.normal, t, ray, tr.material))

\* dyn Hit::hit, aabb and count of a primitive
ObjHit(obj, ray, ray_t) ==
    CASE obj.kind = "quad" -> QuadHit(obj, ray, ray_t)
      [] obj.kind = "sphere" -> SphereHit(obj, ray, ray_t)
      [] obj.kind = "triangle" -> TriangleHit(obj, ray, ray_t)
ObjAabb(obj) == obj.bbox
ObjCount(obj) == 1

(***************************************************************************)
(* HitList (src/src/hit.rs)                                                *)
(***************************************************************************)
RECURSIVE HitListScan(_, _, _, _, _, _)
HitListScan(list, k, ray, ray_t, closest, rec) ==
    IF k > Len(list) THEN rec
    ELSE LET hit == ObjHit(list[k], ray, Interval(ray_t.min, closest))
         IN  IF hit.some
             THEN HitListScan(list, k + 1, ray, ray_t, hit.val.t, hit)
             ELSE HitListScan(list, k + 1, ray, ray_t, closest, rec)

HitListHit(list, ray, ray_t) == HitListScan(list, 1, ray, ray_t, ray_t.max, None)

(***************************************************************************)
(* Bvh (src/src/bvh.rs)                                                    *)
(***************************************************************************)
Leaf(obj, bbox) == [leaf |-> TRUE, obj |-> obj, bbox |-> bbox]
Node(left, right, bbox) == [leaf |-> FALSE, left |-> left, right |-> right, bbox |-> bbox]

\* a fold that keeps the box of the last object only
FoldBoxLastOnly(list, acc) == ObjAabb(list[Len(list)])
\* the fold of from_list: the running box, merged with every object's box
RECURSIVE FoldBox(_, _)
FoldBox(list, acc) ==
    IF list = <<>> THEN acc ELSE FoldBox(Tail(list), AabbMerge(acc, ObjAabb(Head(list))))

\* slice::sort_by is stable: equal elements keep their order
RECURSIVE InsertSorted(_, _, _)
InsertSorted(sorted, x, axis) ==
    IF sorted = <<>> THEN <<x>>
    ELSE IF CompareLess(ObjAabb(x), ObjAabb(Head(sorted)), axis) THEN <<x>> \o sorted
    ELSE <<Head(sorted)>> \o InsertSorted(Tail(sorted), x, axis)
RECURSIVE SortBy(_, _)
SortBy(list, axis) ==
    IF list = <<>> THEN <<>>
    ELSE InsertSorted(SortBy(SubSeq(list, 1, Len(list) - 1), axis), list[Len(list)], axis)

\* a from_list that gives the left child the larger half
RECURSIVE FromListLeftHeavy(_)
FromListLeftHeavy(hit_list) ==
    LET bbox == FoldBox(hit_list, AabbDefault)
        axis == LongestAxis(bbox)
    IN  IF Len(hit_list) = 1
        THEN [tree |-> Leaf(hit_list[1], bbox), list |-> hit_list]
        ELSE LET sorted == SortBy(hit_list, axis)
                 mid == (Len(hit_list) + 1) \div 2
                 left == FromListLeftHeavy(SubSeq(sorted, 1, mid))
                 right == FromListLeftHeavy(SubSeq(sorted, mid + 1, Len(sorted)))
             IN  [tree |-> Node(left.tree, right.tree, bbox),
                  list |-> left.list \o right.list]

\* Bvh::from_list on a non-empty slice: the tree, and the slice as the
\* in-place sorts leave it
RECURSIVE FromList(_)
FromList(hit_list) ==
    LET bbox == FoldBox(hit_list, AabbDefault)
        axis == LongestAxis(bbox)
    IN  IF Len(hit_list) = 1
        THEN [tree |-> Leaf(hit_list[1], bbox), list |-> hit_list]
        ELSE LET sorted == SortBy(hit_list, axis)
                 mid == Len(hit_list) \div 2
                 left == FromList(SubSeq(sorted, 1, mid))
                 right == FromList(SubSeq(sorted, mid + 1, Len(sorted)))
             IN  [tree |-> Node(left.tree, right.tree, bbox),
                  list |-> left.list \o right.list]

RECURSIVE BvhHit(_, _, _)
BvhHit(bvh, ray, ray_t) ==
    IF ~AabbHit(bvh.bbox, ray, ray_t) THEN None
    ELSE IF bvh.leaf THEN ObjHit(bvh.obj, ray, ray_t)
    ELSE LET left == BvhHit(bvh.left, ray, ray_t)
             max == IF left.some THEN left.val.t ELSE ray_t.max
             right == BvhHit(bvh.right, ray, Interval(ray_t.min, max))
         IN  IF right.some THEN right ELSE IF left.some THEN left ELSE None

\* a hit that queries the right child over the whole of ray_t
RECURSIVE BvhTraceRightUnnarrowed(_, _, _)
BvhTraceRightUnnarrowed(bvh, ray, ray_t) ==
    IF ~AabbHit(bvh.bbox, ray, ray_t) THEN [hit |-> None, visits |-> <<>>]
    ELSE IF bvh.leaf THEN [hit |-> ObjHit(bvh.obj, ray, ray_t), visits |-> <<>>]
    ELSE LET left == BvhTraceRightUnnarrowed(bvh.left, ray, ray_t)
             right == BvhTraceRightUnnarrowed(bvh.right, ray, ray_t)
             ret == IF right.hit.some THEN right.hit
                    ELSE IF left.hit.some THEN left.hit ELSE None
         IN  [hit |-> ret,
              visits |-> <<[node |-> bvh, ray_t |-> ray_t, left_t |-> ray_t,
                            left |-> left.hit, right_t |-> ray_t,
                            right |-> right.hit, ret |-> ret]>>
                             \o left.visits \o right.visits]

\* Bvh::hit with the Interior nodes it goes through, a node before the nodes
\* beneath it and the left child's before the right child's: the interval
\* the node was queried over, the interval and the result of the query of
\* each child, and what the node returned
RECURSIVE BvhTrace(_, _, _)
BvhTrace(bvh, ray, ray_t) ==
    IF ~AabbHit(bvh.bbox, ray, ray_t) THEN [hit |-> None, visits |-> <<>>]
    ELSE IF bvh.leaf THEN [hit |-> ObjHit(bvh.obj, ray, ray_t), visits |-> <<>>]
    ELSE LET left == BvhTrace(bvh.left, ray, ray_t)
             max == IF left.hit.some THEN left.hit.val.t ELSE ray_t.max
             right_t == Interval(ray_t.min, max)
             right == BvhTrace(bvh.right, ray, right_t)
             ret == IF right.hit.some THEN right.hit
                    ELSE IF left.hit.some THEN left.hit ELSE None
         IN  [hit |-> ret,
              visits |-> <<[node |-> bvh, ray_t |-> ray_t, left_t |-> ray_t,
                            left |-> left.hit, right_t |-> right_t,
                            right |-> right.hit, ret |-> ret]>>
                             \o left.visits \o right.visits]

\* a count that adds the left child's count twice
RECURSIVE BvhCountLeftTwice(_)
BvhCountLeftTwice(bvh) ==
    IF bvh.leaf THEN 1 ELSE BvhCountLeftTwice(bvh.left) + BvhCountLeftTwice(bvh.left)
RECURSIVE BvhCount(_)
BvhCount(bvh) ==
    IF bvh.leaf THEN ObjCount(bvh.obj) ELSE BvhCount(bvh.left) + BvhCount(bvh.right)

(***************************************************************************)
(* Material (src/src/material.rs)                                          *)
(***************************************************************************)
Lambertian(albedo) == [kind |-> "lambertian", albedo |-> albedo]
Metal(albedo) == [kind |-> "metal", albedo |-> albedo]
Dielectric == [kind |-> "dielectric"]
DiffuseLight(color) == [kind |-> "diffuse_light", color |-> color]

(***************************************************************************)
(* Bounds and inputs of the scene model                                    *)
(***************************************************************************)
\* the most objects pushed to the staging list
MaxObjs == 3
\* the planes z = 0 .. MaxZ hold the axis-aligned quads
MaxZ == 1

Quads ==
    {QuadNew(<<0, 0, z>>, <<2, 0, 0>>, <<0, 2, 0>>, Lambertian(<<1, z, 0>>)) : z \in 0..MaxZ}
    \cup {QuadNew(<<0, 0, 1>>, <<1, 1, 0>>, <<-1, 1, 0>>, Lambertian(<<0, 1, 1>>))}
Spheres ==
    {SphereNew(<<1, 1, 3>>, 1, Metal(<<1, 0, 1>>)), SphereNew(<<0, 1, 0>>, 1, Dielectric)}
Triangles ==
    {TriangleNew(<<0, 0, 1>>, <<2, 0, 1>>, <<0, 2, 1>>, DiffuseLight(<<2, 2, 2>>)),
     TriangleNew(<<-1, 0, 0>>, <<-1, 2, 0>>, <<-1, 0, 2>>, Metal(<<0, 1, 0>>))}
Prims == Quads \cup Spheres \cup Triangles

RayOrigins == {<<x, 1, z>> : x \in {-2, 0, 1}, z \in {-2, 0, 5}}
RayDirs == {<<0, 0, 1>>, <<0, 0, -1>>, <<1, 0, 0>>, <<1, 0, 1>>, <<-1, 0, -1>>, <<1, 0, 2>>}
Rays == {Ray(o, d) : o \in RayOrigins, d \in RayDirs}
RayIntervals ==
    {Interval(Zero, PInf), Interval(Num(1, 1000), PInf), Interval(Zero, FInt(2))}

\* the rays on which Sphere::hit takes the root of a square
RECURSIVE SqrtExact(_, _)
SqrtExact(objs, ray) ==
    IF objs = <<>> THEN TRUE
    ELSE LET o == Head(objs)
             oc == VSub(o.center, ray.origin)
             d == Dot(ray.direction, oc) * Dot(ray.direction, oc)
                  - LengthSquared(ray.direction)
                    * (LengthSquared(oc) - o.radius * o.radius)
         IN  /\ (o.kind = "sphere" => d < 0 \/ IsSquare(d))
             /\ SqrtExact(Tail(objs), ray)

\* the radii given to Sphere::new: 0.0, -0.0 and the whole numbers up to
\* MaxRadius of either sign
MaxRadius == 2
Radii == {Radius(neg, mag) : neg \in BOOLEAN, mag \in 0..MaxRadius}

Boxes == {ObjAabb(o) : o \in Prims} \cup {AabbDefault, Aabb(IntervalEmpty, IntervalEmpty, IntervalEmpty)}

(***************************************************************************)
(* Radiance (the Vec3 colours of src/src/camera.rs).  A colour component   *)
(* is a non-negative f64 that is a whole number of quanta of 2^-53, held   *)
(* as two limbs: value = (h * 2^27 + l) * 2^-53, so that 1.0 is 2^53       *)
(* quanta.  Every f64 of the range [0, 4) that is a whole number of quanta *)
(* is of this form; a sum is rounded to 53 significant bits, ties to even, *)
(* as the f64 addition of the build rounds it.                             *)
(***************************************************************************)
Limb == 2^27
Quanta(h, l) == [h |-> h, l |-> l]
Black == Quanta(0, 0)
\* 2^-53, the least colour step
Tiny == Quanta(0, 1)
\* 2^-8
Dim == Quanta(2^18, 0)
\* 0.25
Quarter == Quanta(2^24, 0)
\* 1.0
Full == Quanta(2^26, 0)

\* the exact sum of two components, before rounding
ExactAdd(a, b) ==
    LET l == a.l + b.l
    IN  Quanta(a.h + b.h + (l \div Limb), l % Limb)

\* the spacing of the f64 grid at x: 1 quantum below 2^53 quanta, doubling
\* with every power of two above
RECURSIVE Spacing(_)
Spacing(h) == IF h < 2^26 THEN 1 ELSE 2 * Spacing(h \div 2)

\* x rounded to a multiple of step (a power of two, at least 2), ties to the
\* even multiple
RoundTo(x, step) ==
    LET r == x.l % step
        down == x.l - r
        up == IF down + step = Limb THEN Quanta(x.h + 1, 0) ELSE Quanta(x.h, down + step)
        half == step \div 2
    IN  IF r < half THEN Quanta(x.h, down)
        ELSE IF r > half THEN up
        ELSE IF (down \div step) % 2 = 0 THEN Quanta(x.h, down) ELSE up

\* the nearest f64, 53 significant bits
Round53(x) == IF Spacing(x.h) = 1 THEN x ELSE RoundTo(x, Spacing(x.h))

Representable(x) == Round53(x) = x

\* f64 + on a component
ColorAddF(a, b) == Round53(ExactAdd(a, b))
\* f64 * of a component by an attenuation of 0.0, 1.0 or 2.0
ColorMulF(a, m) ==
    LET l == a.l * m
    IN  Round53(Quanta(a.h * m + (l \div Limb), l % Limb))


\* Vec3::default, Add for Vec3, Vec3::scale
ColorDefault == <<Black, Black, Black>>
ColorAdd(a, b) == <<ColorAddF(a[1], b[1]), ColorAddF(a[2], b[2]), ColorAddF(a[3], b[3])>>
ColorScale(a, att) == <<ColorMulF(a[1], att[1]), ColorMulF(a[2], att[2]), ColorMulF(a[3], att[3])>>

\* Sum for Vec3: fold(Self::default(), |a, b| a + b)
RECURSIVE ColorSumFrom(_, _)
ColorSumFrom(a, cs) ==
    IF cs = <<>> THEN a ELSE ColorSumFrom(ColorAdd(a, Head(cs)), Tail(cs))
ColorSum(cs) == ColorSumFrom(ColorDefault, cs)

(***************************************************************************)
(* Scatter and emit of the four materials (src/src/material.rs).  The      *)
(* scattered ray is left out; what the random draw decides for Metal, the  *)
(* sign of dot(scattered.direction, normal), is the input dot_pos.         *)
(***************************************************************************)
\* a scatter whose Metal never rejects a bounce
ScatterMetalAlways(material, dot_pos) ==
    CASE material.kind \in {"lambertian", "metal"} -> Some(material.albedo)
      [] material.kind = "dielectric" -> Some(<<1, 1, 1>>)
      [] material.kind = "diffuse_light" -> None
Scatter(material, dot_pos) ==
    CASE material.kind = "lambertian" -> Some(material.albedo)
      [] material.kind = "metal" -> IF dot_pos THEN Some(material.albedo) ELSE None
      [] material.kind = "dielectric" -> Some(<<1, 1, 1>>)
      [] material.kind = "diffuse_light" -> None

Emit(material) ==
    IF material.kind = "diffuse_light" THEN Some(material.color) ELSE None

(***************************************************************************)
(* Camera::ray_color.  world is what the successive rays of one path meet: *)
(* world[1] is the outcome of world.hit for the camera ray, world[2] for   *)
(* the ray scattered from there, and so on.                                *)
(***************************************************************************)
Miss == [hit |-> FALSE]
Meets(material, dot_pos) == [hit |-> TRUE, material |-> material, dot_pos |-> dot_pos]

\* a ray_color that drops the attenuation of a scattering bounce
RECURSIVE RayColorUnattenuated(_, _, _)
RayColorUnattenuated(world, depth, background) ==
    IF depth = 0 THEN background
    ELSE IF ~Head(world).hit THEN background
    ELSE LET hit == Head(world)
             scattered == Scatter(hit.material, hit.dot_pos)
             emitted == Emit(hit.material)
         IN  IF scattered.some
             THEN RayColorUnattenuated(Tail(world), depth - 1, background)
             ELSE IF emitted.some THEN emitted.val ELSE background

\* a ray_color that tests the depth only after it has queried the world
RECURSIVE RayColorCallsHitFirst(_, _)
RayColorCallsHitFirst(world, depth) ==
    IF depth = 0 THEN <<[depth |-> depth, hits |-> 1, scatters |-> 0]>>
    ELSE IF ~Head(world).hit THEN <<[depth |-> depth, hits |-> 1, scatters |-> 0]>>
    ELSE IF Scatter(Head(world).material, Head(world).dot_pos).some
         THEN <<[depth |-> depth, hits |-> 1, scatters |-> 1]>>
                  \o RayColorCallsHitFirst(Tail(world), depth - 1)
         ELSE <<[depth |-> depth, hits |-> 1, scatters |-> 1]>>

\* the calls of ray_color that one evaluation makes, outermost first: the
\* depth argument of each, and how many times it calls world.hit (line 198)
\* and hit.scatter (line 199)
RECURSIVE RayColorCalls(_, _)
RayColorCalls(world, depth) ==
    IF depth = 0 THEN <<[depth |-> depth, hits |-> 0, scatters |-> 0]>>
    ELSE IF ~Head(world).hit THEN <<[depth |-> depth, hits |-> 1, scatters |-> 0]>>
    ELSE IF Scatter(Head(world).material, Head(world).dot_pos).some
         THEN <<[depth |-> depth, hits |-> 1, scatters |-> 1]>>
                  \o RayColorCalls(Tail(world), depth - 1)
         ELSE <<[depth |-> depth, hits |-> 1, scatters |-> 1]>>

\* a ray_color that returns a grey, not the background, when depth is 0
RECURSIVE RayColorGreyAtDepthZero(_, _, _)
RayColorGreyAtDepthZero(world, depth, background) ==
    IF depth = 0 THEN <<Quarter, Quarter, Quarter>>
    ELSE IF ~Head(world).hit THEN background
    ELSE LET hit == Head(world)
             scattered == Scatter(hit.material, hit.dot_pos)
             emitted == Emit(hit.material)
         IN  IF scattered.some
             THEN ColorScale(RayColorGreyAtDepthZero(Tail(world), depth - 1, background),
                             scattered.val)
             ELSE IF emitted.some THEN emitted.val ELSE background

RECURSIVE RayColor(_, _, _)
RayColor(world, depth, background) ==
    IF depth = 0 THEN background
    ELSE IF ~Head(world).hit THEN background
    ELSE LET hit == Head(world)
             scattered == Scatter(hit.material, hit.dot_pos)
             emitted == Emit(hit.material)
         IN  IF scattered.some
             THEN ColorScale(RayColor(Tail(world), depth - 1, background), scattered.val)
             ELSE IF emitted.some THEN emitted.val ELSE background

(***************************************************************************)
(* Vec3::to_color after the scaling by 1 / sample_count of Camera::render. *)
(* The byte is floor(256 * clamp(sqrt(x), 0, 0.999)) for x = sum /         *)
(* sample_count, that is the greatest k <= 255 with k * k <= 65536 * x.    *)
(* In quanta: k * k * sample_count * 2^10 <= h.  Exact for a sample_count  *)
(* that is a power of two, which makes the scaling exact.                  *)
(***************************************************************************)
ToByte(sum, sample_count) ==
    LET q == sum.h \div 2^10
    IN  CHOOSE b \in 0..255 :
            /\ b * b * sample_count <= q
            /\ b = 255 \/ (b + 1) * (b + 1) * sample_count > q

ToColor(sum, sample_count) ==
    <<ToByte(sum[1], sample_count), ToByte(sum[2], sample_count), ToByte(sum[3], sample_count)>>

(***************************************************************************)
(* The choice between sample_seq and sample_par (src/src/camera.rs, lines  *)
(* 166-167 and 175).  sample_count is a u32, held as two 16-bit halves;    *)
(* count_log2 is (count as f64).log2() cast to u32: the cast truncates,    *)
(* and saturates the -inf of an empty world to 0.                          *)
(***************************************************************************)
Half == 2^16
U32(hi, lo) == [hi |-> hi, lo |-> lo]
U32Of(v) == U32(v \div Half, v % Half)

RECURSIVE Log2Floor(_)
Log2Floor(count) == IF count <= 1 THEN 0 ELSE 1 + Log2Floor(count \div 2)

\* sample_count * count_log2 in u32: the product, wrapped, and whether it
\* overflowed
MulU32(a, m) ==
    LET lo == a.lo * m
        hi == a.hi * m + (lo \div Half)
    IN  [val |-> U32(hi % Half, lo % Half), overflow |-> hi >= Half]

\* the outcomes of the test of line 175: an overflowing product panics in a
\* build with overflow checks and wraps in one without
Dispatch(sample_count, count) ==
    LET work == MulU32(sample_count, Log2Floor(count))
        below == work.val.hi = 0 /\ work.val.lo < 1000
    IN  {IF below THEN "seq" ELSE "par"} \cup (IF work.overflow THEN {"panic"} ELSE {})

(***************************************************************************)
(* The parallel sum of sample_par: rayon splits the range of sample        *)
(* indices at its middle, again and again as workers become free, folds    *)
(* each piece from Vec3::default() in index order, and adds the results of *)
(* the two halves of every split.                                          *)
(***************************************************************************)
\* a piece of the range: the indices lo .. hi - 1, the next index to fold,
\* the sum so far, and how many joins made the piece
Task(lo, hi) == [lo |-> lo, hi |-> hi, next |-> lo, sum |-> ColorDefault, joins |-> 0]
Mid(lo, hi) == lo + (hi - lo) \div 2

\* [a, b) is a piece the splitting of [lo, hi) can produce
RECURSIVE IsPiece(_, _, _, _)
IsPiece(lo, hi, a, b) ==
    \/ (lo = a /\ hi = b)
    \/ /\ hi - lo >= 2
       /\ \/ IsPiece(lo, Mid(lo, hi), a, b)
          \/ IsPiece(Mid(lo, hi), hi, a, b)

ReplaceAt(seq, at, drop, put) ==
    SubSeq(seq, 1, at - 1) \o put \o SubSeq(seq, at + drop, Len(seq))

\* the reducer of the parallel sum: [left, right].into_iter().sum(); and a
\* reducer that drops the right half
JoinSumKeepsLeft(left, right) == left
JoinSum(left, right) == ColorSum(<<left, right>>)

(***************************************************************************)
(* State: the staging list (HitList), the tree built from it, and the      *)
(* last operation with its arguments and results.                          *)
(***************************************************************************)
VARIABLES list, bbox, bvh, res

\* ray_color: the last call with its arguments and result
VARIABLES traced
\* the last choice between sample_seq and sample_par
VARIABLES choice
\* Camera::render: the camera, the arguments of the call, the position in
\* the code, the loop variables j and i, the samples taken of the pixel,
\* the running sum, the lines written to the BufWriter, and whether it was
\* flushed
VARIABLES cam, args, pc, px_j, px_i, taken, color, out, flushed
\* sample_par and sample_seq on the same samples: the radiance of each
\* sample, the pieces of the index range, and the two results
VARIABLES radiance, tasks, par_sum, seq_sum

sceneVars == <<list, bbox, bvh, res>>
renderVars == <<cam, args, pc, px_j, px_i, taken, color, out, flushed>>
sumVars == <<radiance, tasks, par_sum, seq_sum>>
vars == <<sceneVars, traced, choice, renderVars, sumVars>>

\* HitList::new
SceneInit ==
    /\ list = <<>>
    /\ bbox = AabbDefault
    /\ bvh = None
    /\ res = [op |-> "new"]

\* no ray traced, no choice made, render not called, no samples summed
TracedIdle == traced = None
ChoiceIdle == choice = None
RenderIdle ==
    /\ cam = None
    /\ args = None
    /\ pc = "idle"
    /\ px_j = 0
    /\ px_i = 0
    /\ taken = 0
    /\ color = ColorDefault
    /\ out = <<>>
    /\ flushed = FALSE
SumIdle ==
    /\ radiance = <<>>
    /\ tasks = <<>>
    /\ par_sum = None
    /\ seq_sum = None

Init == SceneInit /\ TracedIdle /\ ChoiceIdle /\ RenderIdle /\ SumIdle

\* HitList::push of a primitive built by Quad::new, Sphere::new or Triangle::new
Push(v) ==
    /\ ~bvh.some
    /\ res.op \in {"new", "push"}
    /\ Len(list) < MaxObjs
    /\ bbox' = AabbMerge(bbox, ObjAabb(v))
    /\ list' = Append(list, v)
    /\ res' = [op |-> "push"]
    /\ UNCHANGED <<bvh, traced, choice, renderVars, sumVars>>

\* Bvh::from_list(world.list_mut()): the assertion of line 29 fails on an
\* empty slice and the process aborts; otherwise the slice is sorted in place
Build ==
    /\ ~bvh.some
    /\ res.op \in {"new", "push"}
    /\ IF list = <<>>
       THEN /\ res' = [op |-> "from_list_abort"]
            /\ UNCHANGED <<list, bvh>>
       ELSE LET b == FromList(list)
            IN  /\ bvh' = Some(b.tree)
                /\ list' = b.list
                /\ res' = [op |-> "from_list", given |-> list, count |-> BvhCount(b.tree)]
    /\ UNCHANGED <<bbox, traced, choice, renderVars, sumVars>>

\* Bvh::hit and HitList::hit of one ray over one interval.  A query leaves
\* the scene as it is, so the model runs one operation on each built scene.
Query(ray, ray_t) ==
    /\ bvh.some
    /\ res.op = "from_list"
    /\ SqrtExact(list, ray)
    /\ res' = [op |-> "hit", ray |-> ray, ray_t |-> ray_t,
               bvh |-> BvhHit(bvh.val, ray, ray_t),
               list |-> HitListHit(list, ray, ray_t),
               visits |-> BvhTrace(bvh.val, ray, ray_t).visits]
    /\ UNCHANGED <<list, bbox, bvh, traced, choice, renderVars, sumVars>>

\* the hit of the first object of the list alone
QueryObj(ray, ray_t) ==
    /\ bvh.some
    /\ res.op = "from_list"
    /\ SqrtExact(list, ray)
    /\ res' = [op |-> "obj_hit", obj |-> list[1], ray |-> ray, ray_t |-> ray_t,
               hit |-> ObjHit(list[1], ray, ray_t)]
    /\ UNCHANGED <<list, bbox, bvh, traced, choice, renderVars, sumVars>>

\* Aabb::hit of the first object's box over (0, +inf)
Probe(ray) ==
    /\ bvh.some
    /\ res.op = "from_list"
    /\ res' = [op |-> "aabb_hit", box |-> ObjAabb(list[1]), ray |-> ray,
               hit |-> AabbHit(ObjAabb(list[1]), ray, Interval(Zero, PInf))]
    /\ UNCHANGED <<list, bbox, bvh, traced, choice, renderVars, sumVars>>

\* Aabb::merge on three boxes
Merge(a, b, c) ==
    /\ res.op = "new"
    /\ res' = [op |-> "merge", a |-> a, b |-> b, c |-> c,
               ab |-> AabbMerge(a, b), ba |-> AabbMerge(b, a),
               ab_c |-> AabbMerge(AabbMerge(a, b), c),
               a_bc |-> AabbMerge(a, AabbMerge(b, c)),
               aa |-> AabbMerge(a, a)]
    /\ UNCHANGED <<list, bbox, bvh, traced, choice, renderVars, sumVars>>

\* Sphere::new on a radius of either sign
NewSphere(radius) ==
    /\ res.op = "new"
    /\ res' = [op |-> "sphere_new", radius |-> radius,
               outcome |-> SphereNewChecked(<<0, 1, 0>>, radius, Dielectric)]
    /\ UNCHANGED <<list, bbox, bvh, traced, choice, renderVars, sumVars>>

\* Aabb::longest_axis of a box
Longest(box) ==
    /\ res.op = "new"
    /\ res' = [op |-> "longest_axis", box |-> box, axis |-> LongestAxis(box)]
    /\ UNCHANGED <<list, bbox, bvh, traced, choice, renderVars, sumVars>>

Next ==
    \/ \E v \in Prims : Push(v)
    \/ Build
    \/ \E ray \in Rays, ray_t \in RayIntervals : Query(ray, ray_t)
    \/ \E ray \in Rays, ray_t \in RayIntervals : QueryObj(ray, ray_t)
    \/ \E ray \in Rays : Probe(ray)
    \/ \E a \in Boxes, b \in Boxes, c \in Boxes : Merge(a, b, c)
    \/ \E a \in Boxes, b \in Boxes : Longest(AabbMerge(a, b))
    \/ \E radius \in Radii : NewSphere(radius)

Spec == Init /\ [][Next]_vars

(***************************************************************************)
(* Claims on the scene model                                               *)
(***************************************************************************)

\* C1: on the tree built by Bvh::from_list, Bvh::hit returns a hit exactly
\* when the brute-force scan HitList::hit over the same objects returns one,
\* and then the same record (t, point, normal, material), flat axis-aligned
\* primitives with a box of zero extent on one axis included.
C1_BvhHitIsHitListHit ==
    res.op = "hit" => res.bvh = res.list

\* C2: a primitive's hit is reported only with t strictly inside t_interval,
\* and t is the smallest intersection parameter of the primitive inside it;
\* a t on either endpoint is never reported.
OnSphere(s, ray, t) ==
    LET p == FVSub(RayAt(ray, t), FVec(s.center))
    IN  FDot(p, p) = FInt(s.radius * s.radius)
ProbeTs == {Num(k, 2) : k \in 0..20}
C2_HitStrictlyInsideAndNearest ==
    (res.op = "obj_hit" /\ res.hit.some) =>
        /\ Surrounds(res.ray_t, res.hit.val.t)
        /\ res.obj.kind = "sphere" =>
              \A t \in ProbeTs :
                  (Surrounds(res.ray_t, t) /\ OnSphere(res.obj, res.ray, t))
                      => FLe(res.hit.val.t, t)

\* C3: Aabb::hit over (0, +inf) is true for every box, flat ones included,
\* and every ray from outside the box towards its centre, and false for a
\* ray that stays outside the box's extent on some axis.
OutsideBox(box, p) ==
    \E i \in 1..3 : ~Contains(AabbGet(box, Axes[i]), FInt(p[i]))
\* twice the vector from the ray's origin to the centre of the box
ToCentre2(box, ray) ==
    [i \in 1..3 |->
        FSub(FAdd(AabbGet(box, Axes[i]).min, AabbGet(box, Axes[i]).max),
             FInt(2 * ray.origin[i]))]
PointsAtCentre(box, ray) ==
    LET c == ToCentre2(box, ray)
        d == FVec(ray.direction)
    IN  /\ FCross(c, d) = <<Zero, Zero, Zero>>
        /\ FGt(FDot(c, d), Zero)
StaysOutside(box, ray) ==
    \E i \in 1..3 :
        \/ FLt(FInt(ray.origin[i]), AabbGet(box, Axes[i]).min) /\ ray.direction[i] <= 0
        \/ FGt(FInt(ray.origin[i]), AabbGet(box, Axes[i]).max) /\ ray.direction[i] >= 0
C3_AabbHitTowardsCentre ==
    res.op = "aabb_hit" =>
        /\ (OutsideBox(res.box, res.ray.origin) /\ PointsAtCentre(res.box, res.ray)) => res.hit
        /\ StaysOutside(res.box, res.ray) => ~res.hit

\* C8: the tree built from n primitives has count() = n; a primitive counts
\* 1 and an Interior node the sum of its two children.
RECURSIVE CountsAdd(_)
CountsAdd(t) ==
    IF t.leaf THEN BvhCount(t) = 1 /\ ObjCount(t.obj) = 1
    ELSE /\ BvhCount(t) = BvhCount(t.left) + BvhCount(t.right)
         /\ CountsAdd(t.left)
         /\ CountsAdd(t.right)
C8_CountIsNumberOfPrimitives ==
    res.op = "from_list" =>
        /\ res.count = Len(res.given)
        /\ BvhCount(bvh.val) = Len(list)
        /\ CountsAdd(bvh.val)
C8_Witness ==
    res.op = "from_list" /\ Len(res.given) >= 3 /\ ~bvh.val.leaf /\ res.count >= 3

\* C9: a record built by HitRecord::new has dot(ray.direction, normal) <= 0;
\* front_face is true exactly when dot(ray.direction, n) < 0 for the
\* geometric normal n, and the record's normal is n then and -n otherwise.
GeoNormal(obj, point) ==
    IF obj.kind = "sphere"
    THEN FVScale(FVSub(point, FVec(obj.center)), FRecip(FInt(obj.radius)))
    ELSE obj.normal
C9_NormalAgainstRay ==
    /\ (res.op = "obj_hit" /\ res.hit.some) =>
          LET h == res.hit.val
              n == GeoNormal(res.obj, h.point)
              d == FVec(res.ray.direction)
          IN  /\ FLe(FDot(d, h.normal), Zero)
              /\ h.front_face <=> FLt(FDot(d, n), Zero)
              /\ h.normal = IF h.front_face THEN n ELSE FVNeg(n)
    /\ (res.op = "hit" /\ res.list.some) =>
          FLe(FDot(FVec(res.ray.direction), res.list.val.normal), Zero)
C9_Witness ==
    /\ res.op = "obj_hit"
    /\ res.hit.some
    /\ ~res.hit.val.front_face
    /\ FGt(FDot(FVec(res.ray.direction), GeoNormal(res.obj, res.hit.val.point)), Zero)

\* C10: Aabb::merge is commutative, associative and idempotent.
C10_MergeLaws ==
    res.op = "merge" =>
        /\ res.ab = res.ba
        /\ res.ab_c = res.a_bc
        /\ res.aa = res.a
C10_Witness ==
    /\ res.op = "merge"
    /\ res.ab # res.a
    /\ res.ab # res.b
    /\ res.ab_c # res.ab
    /\ res.ab_c # res.c

(***************************************************************************)
(* Camera::ray_color on the paths of a small world                         *)
(***************************************************************************)
\* the deepest recursion budget and the longest path of a ray
MaxDepth == 2

Light == DiffuseLight(<<Full, Quarter, Tiny>>)
PathMaterials == {Lambertian(<<1, 0, 2>>), Metal(<<2, 1, 1>>), Dielectric, Light}
\* the random draw decides the outcome of Metal only
Outcomes ==
    {Miss} \cup {Meets(m, TRUE) : m \in PathMaterials}
           \cup {Meets(m, FALSE) : m \in {m \in PathMaterials : m.kind = "metal"}}
Paths == [1..MaxDepth -> Outcomes]
Backgrounds == {ColorDefault, <<Dim, Quarter, Full>>}

RayColorCall(world, depth, background) ==
    /\ traced' = Some([op |-> "ray_color", world |-> world, depth |-> depth,
                       background |-> background,
                       color |-> RayColor(world, depth, background),
                       calls |-> RayColorCalls(world, depth)])
    /\ UNCHANGED <<sceneVars, choice, renderVars, sumVars>>

\* HitRecord::scatter and HitRecord::emit on a hit of the material; dot is
\* the f64 that Metal compares with 0.0, dot(scattered.direction, normal),
\* NaN when the reflected direction has no length
ScatterDots == {FInt(-1), Zero, Num(1, 2), NaN}
ScatterCall(material, dot) ==
    /\ traced' = Some([op |-> "scatter", material |-> material, dot |-> dot,
                       scattered |-> Scatter(material, FGt(dot, Zero)),
                       emitted |-> Emit(material)])
    /\ UNCHANGED <<sceneVars, choice, renderVars, sumVars>>

NextColor ==
    \/ \E world \in Paths, depth \in 0..MaxDepth, background \in Backgrounds :
           RayColorCall(world, depth, background)
    \/ \E material \in PathMaterials, dot \in ScatterDots : ScatterCall(material, dot)

SpecColor == Init /\ [][NextColor]_vars

\* C4: ray_color returns the background when depth is 0 and when the ray
\* hits nothing; on a hit whose material does not scatter it returns the
\* emitted colour, and the background when there is none; on a scattering
\* hit it returns the attenuation times the colour of the scattered ray at
\* depth - 1.  Unfolded along the path: the colour where the path ends,
\* scaled by the attenuations of the bounces before, innermost first.
RECURSIVE Bounces(_, _)
Bounces(world, depth) ==
    IF depth = 0 \/ ~Head(world).hit THEN 0
    ELSE IF ~Scatter(Head(world).material, Head(world).dot_pos).some THEN 0
    ELSE 1 + Bounces(Tail(world), depth - 1)
PathEnd(world, depth, background) ==
    LET n == Bounces(world, depth)
    IN  IF n = depth \/ ~world[n + 1].hit THEN background
        ELSE IF world[n + 1].material.kind = "diffuse_light"
             THEN world[n + 1].material.color
             ELSE background
RECURSIVE Attenuated(_, _, _)
Attenuated(c, world, n) ==
    IF n = 0 THEN c
    ELSE LET m == world[n].material
             att == IF m.kind = "dielectric" THEN <<1, 1, 1>> ELSE m.albedo
         IN  Attenuated(ColorScale(c, att), world, n - 1)
C4_RayColorCases ==
    (traced.some /\ traced.val.op = "ray_color") =>
        LET t == traced.val
            first == t.world[1]
        IN  /\ t.depth = 0 => t.color = t.background
            /\ (t.depth > 0 /\ ~first.hit) => t.color = t.background
            /\ (t.depth > 0 /\ first.hit /\ first.material.kind = "diffuse_light")
                   => t.color = first.material.color
            /\ (t.depth > 0 /\ first.hit /\ first.material.kind = "metal" /\ ~first.dot_pos)
                   => t.color = t.background
            /\ t.color = Attenuated(PathEnd(t.world, t.depth, t.background), t.world,
                                    Bounces(t.world, t.depth))
C4_Witness ==
    /\ traced.some
    /\ traced.val.op = "ray_color"
    /\ traced.val.depth = 2
    /\ traced.val.world[1].hit
    /\ traced.val.world[1].material.kind = "lambertian"
    /\ traced.val.world[2] = Meets(Light, TRUE)
    /\ traced.val.color = ColorScale(Light.color, traced.val.world[1].material.albedo)
    /\ traced.val.color # Light.color
    /\ traced.val.color # traced.val.background

(***************************************************************************)
(* The choice between sample_seq and sample_par over a wide range of       *)
(* sample counts                                                           *)
(***************************************************************************)
\* the most primitives world.count() reports here
MaxCount == 9

SampleCounts ==
    {U32Of(v) : v \in {1, 2, 64, 334, 499, 500, 700, 999, 1000}}
    \cup {U32(2^15, 0), U32(21845, 21846), U32(Half - 1, Half - 1)}

Choose(sample_count, count, outcome) ==
    /\ outcome \in Dispatch(sample_count, count)
    /\ choice' = Some([sample_count |-> sample_count, count |-> count, outcome |-> outcome])
    /\ UNCHANGED <<sceneVars, traced, renderVars, sumVars>>

NextChoice ==
    \E sample_count \in SampleCounts, count \in 0..MaxCount,
       outcome \in {"seq", "par", "panic"} :
        Choose(sample_count, count, outcome)

SpecChoice == Init /\ [][NextChoice]_vars

\* floor(1000 * log2(count)) for count = 1 .. 16
Log2Milli ==
    <<0, 1000, 1584, 2000, 2321, 2584, 2807, 3000,
      3169, 3321, 3459, 3584, 3700, 3807, 3906, 4000>>
\* sample_count * log2(count) < 1000 with the real logarithm.  No product
\* taken here lies between the table's entry and the logarithm: it is under
\* 1000 * 1000 exactly when the real product is under 1000.
RealWorkBelow(sample_count, count) ==
    \/ count = 1
    \/ sample_count.hi = 0 /\ sample_count.lo * Log2Milli[count] < 1000 * 1000

\* C6: a pixel is computed by sample_seq exactly when sample_count times
\* the real log2 of world.count() is under 1000, and by sample_par otherwise;
\* the logarithm is not truncated and the product does not wrap.
C6_SeqIffRealWorkBelow1000 ==
    (choice.some /\ choice.val.count >= 1) =>
        /\ choice.val.outcome \in {"seq", "par"}
        /\ choice.val.outcome = "seq"
               <=> RealWorkBelow(choice.val.sample_count, choice.val.count)

(***************************************************************************)
(* Camera::render (src/src/camera.rs, lines 155-188)                       *)
(***************************************************************************)
\* the widest and the tallest image
MaxW == 2
MaxH == 2

\* for j in 0..img_height { for i in 0..img_width { .. } }: the pixel after
\* (i, j), a pixel that advances the row before the column
NextPixelRowFirst(i, j, img_width) ==
    IF j + 1 < img_width THEN [i |-> i, j |-> j + 1] ELSE [i |-> i + 1, j |-> 0]
NextPixel(i, j, img_width) ==
    IF i + 1 < img_width THEN [i |-> i + 1, j |-> j] ELSE [i |-> 0, j |-> j + 1]

\* sample counts that are powers of two, and worlds of as many primitives as
\* make 64 samples go either way
RenderSampleCounts == {1, 2, 64}
RenderCounts == {1, 65535, 65536}
\* what every ray of one run meets: nothing, a light, a matte surface in
\* front of nothing
Glow == DiffuseLight(<<Quarter, Dim, Black>>)
Matte == Lambertian(<<1, 0, 1>>)
RenderPaths ==
    {[d \in 1..MaxDepth |-> Miss],
     [d \in 1..MaxDepth |-> IF d = 1 THEN Meets(Glow, TRUE) ELSE Miss],
     [d \in 1..MaxDepth |-> IF d = 1 THEN Meets(Matte, TRUE) ELSE Miss]}
RenderBackgrounds == {ColorDefault, <<Dim, Dim, Quarter>>}

\* render is called: the camera and the arguments are the inputs
RenderInit ==
    /\ cam \in {Some([img_width |-> w, img_height |-> h, background |-> b]) :
                    w \in 1..MaxW, h \in 1..MaxH, b \in RenderBackgrounds}
    /\ args \in {Some([world |-> [count |-> c, meets |-> m],
                       sample_count |-> n, max_depth |-> d]) :
                    c \in RenderCounts, m \in RenderPaths,
                    n \in RenderSampleCounts, d \in 0..MaxDepth}
    /\ pc = "start"
    /\ px_j = 0
    /\ px_i = 0
    /\ taken = 0
    /\ color = ColorDefault
    /\ out = <<>>
    /\ flushed = FALSE

InitRender == SceneInit /\ TracedIdle /\ ChoiceIdle /\ SumIdle /\ RenderInit

\* line 169: the PPM header
WriteHeader ==
    /\ pc = "start"
    /\ out' = <<[kind |-> "header", magic |-> "P3", width |-> cam.val.img_width,
                 height |-> cam.val.img_height, maxval |-> 255]>>
    /\ pc' = IF cam.val.img_height = 0 \/ cam.val.img_width = 0 THEN "flush" ELSE "pixel"
    /\ UNCHANGED <<cam, args, px_j, px_i, taken, color, flushed>>
    /\ UNCHANGED <<sceneVars, traced, choice, sumVars>>

\* line 175: the test that picks sample_seq or sample_par for the pixel
ChoosePath ==
    /\ pc = "pixel"
    /\ \E outcome \in Dispatch(U32Of(args.val.sample_count), args.val.world.count) :
           pc' = outcome
    /\ taken' = 0
    /\ color' = ColorDefault
    /\ UNCHANGED <<cam, args, px_j, px_i, out, flushed>>
    /\ UNCHANGED <<sceneVars, traced, choice, sumVars>>

\* one sample of the pixel: get_ray, ray_color (its calls are kept in traced),
\* and the sum
Sample ==
    /\ taken < args.val.sample_count
    /\ color' = ColorAdd(color, RayColor(args.val.world.meets, args.val.max_depth,
                                         cam.val.background))
    /\ traced' = Some([op |-> "ray_color", world |-> args.val.world.meets,
                       depth |-> args.val.max_depth, background |-> cam.val.background,
                       color |-> RayColor(args.val.world.meets, args.val.max_depth,
                                          cam.val.background),
                       calls |-> RayColorCalls(args.val.world.meets, args.val.max_depth)])
    /\ taken' = taken + 1
    /\ pc' = IF taken + 1 = args.val.sample_count THEN "write" ELSE pc
    /\ UNCHANGED <<cam, args, px_j, px_i, out, flushed>>
    /\ UNCHANGED <<sceneVars, choice, sumVars>>

\* sample_seq: the loop of the calling thread
SampleSeq == pc = "seq" /\ Sample
\* sample_par: a sample task finishes and its colour is reduced into the
\* sum; the call returns when every task has.  The samples of a run are of
\* one colour and their sums are exact, so every reduction tree gives the
\* running sum kept here; the trees themselves are SpecSum's.
SamplePar == pc = "par" /\ Sample

\* lines 180-182: scale, to_color, and the pixel's line; then the loops advance
WritePixel ==
    /\ pc = "write"
    /\ out' = Append(out, [kind |-> "pixel", rgb |-> ToColor(color, args.val.sample_count),
                           i |-> px_i, j |-> px_j, samples |-> taken])
    /\ LET nx == NextPixel(px_i, px_j, cam.val.img_width)
       IN  /\ px_i' = nx.i
           /\ px_j' = nx.j
           /\ pc' = IF nx.j < cam.val.img_height THEN "pixel" ELSE "flush"
    /\ UNCHANGED <<cam, args, taken, color, flushed>>
    /\ UNCHANGED <<sceneVars, traced, choice, sumVars>>

\* line 185
Flush ==
    /\ pc = "flush"
    /\ flushed' = TRUE
    /\ pc' = "done"
    /\ UNCHANGED <<cam, args, px_j, px_i, taken, color, out>>
    /\ UNCHANGED <<sceneVars, traced, choice, sumVars>>

NextRender ==
    \/ WriteHeader
    \/ ChoosePath
    \/ SampleSeq
    \/ SamplePar
    \/ WritePixel
    \/ Flush

SpecRender == InitRender /\ [][NextRender]_vars

\* C5: render writes the header first and then one line per pixel in
\* row-major order, the k-th pixel line being that of column k mod
\* img_width and row k div img_width, img_width * img_height lines in all,
\* whether sample_seq or sample_par computes the pixels; no pixel's line is
\* written before all of its samples are reduced into its sum.
C5_RowMajorAfterAllSamples ==
    pc # "idle" =>
        LET w == cam.val.img_width
            h == cam.val.img_height
        IN  /\ (pc # "start") =>
                   /\ Len(out) >= 1
                   /\ out[1] = [kind |-> "header", magic |-> "P3", width |-> w,
                                height |-> h, maxval |-> 255]
            /\ \A n \in 2..Len(out) :
                   /\ out[n].kind = "pixel"
                   /\ out[n].i = (n - 2) % w
                   /\ out[n].j = (n - 2) \div w
                   /\ out[n].samples = args.val.sample_count
            /\ Len(out) <= 1 + w * h
            /\ pc \in {"pixel", "seq", "par", "write"} => Len(out) = 1 + px_j * w + px_i
            /\ pc \in {"seq", "par"} => taken < args.val.sample_count
            /\ pc \in {"flush", "done"} => Len(out) = 1 + w * h
            /\ flushed => pc = "done"
C5_Witness ==
    /\ pc = "done"
    /\ flushed
    /\ cam.val.img_width = 2
    /\ cam.val.img_height = 2
    /\ Len(out) = 5
    /\ Dispatch(U32Of(args.val.sample_count), args.val.world.count) = {"par"}
    /\ out[3].i = 1 /\ out[3].j = 0
    /\ out[4].i = 0 /\ out[4].j = 1
    /\ out[5].samples = 64
    /\ out[5].rgb = <<128, 16, 0>>

(***************************************************************************)
(* sample_par and sample_seq on the same samples (src/src/camera.rs,       *)
(* lines 115-153)                                                          *)
(***************************************************************************)
\* the most samples of a pixel
MaxSamples == 3

\* what ray_color returned for the samples
SampleColors == {<<Full, Tiny, Black>>, <<Tiny, Tiny, Tiny>>, <<Black, Quarter, Tiny>>}

InitSum ==
    /\ SceneInit /\ TracedIdle /\ ChoiceIdle /\ RenderIdle
    /\ radiance \in UNION {[1..n -> SampleColors] : n \in 1..MaxSamples}
    /\ tasks = <<Task(0, Len(radiance))>>
    /\ par_sum = None
    /\ seq_sum = None

\* rayon splits a piece no worker has started at its middle
Split(t) ==
    /\ par_sum = None
    /\ tasks[t].next = tasks[t].lo
    /\ tasks[t].hi - tasks[t].lo >= 2
    /\ LET m == Mid(tasks[t].lo, tasks[t].hi)
       IN  tasks' = ReplaceAt(tasks, t, 1, <<Task(tasks[t].lo, m), Task(m, tasks[t].hi)>>)
    /\ UNCHANGED <<radiance, par_sum, seq_sum>>
    /\ UNCHANGED <<sceneVars, traced, choice, renderVars>>

\* the worker of piece t takes its next sample: the colour of the sample
\* goes into the piece's own sum
Fold(t) ==
    /\ par_sum = None
    /\ tasks[t].next < tasks[t].hi
    /\ tasks' = [tasks EXCEPT ![t].sum = ColorAdd(@, radiance[tasks[t].next + 1]),
                              ![t].next = @ + 1]
    /\ UNCHANGED <<radiance, par_sum, seq_sum>>
    /\ UNCHANGED <<sceneVars, traced, choice, renderVars>>

\* the two halves of a split are both folded: their sums are added
Join(t) ==
    /\ par_sum = None
    /\ t + 1 <= Len(tasks)
    /\ tasks[t].next = tasks[t].hi
    /\ tasks[t + 1].next = tasks[t + 1].hi
    /\ IsPiece(0, Len(radiance), tasks[t].lo, tasks[t + 1].hi)
    /\ Mid(tasks[t].lo, tasks[t + 1].hi) = tasks[t].hi
    /\ tasks' = ReplaceAt(tasks, t, 2,
                   <<[lo |-> tasks[t].lo, hi |-> tasks[t + 1].hi, next |-> tasks[t + 1].hi,
                      sum |-> JoinSum(tasks[t].sum, tasks[t + 1].sum),
                      joins |-> tasks[t].joins + tasks[t + 1].joins + 1]>>)
    /\ UNCHANGED <<radiance, par_sum, seq_sum>>
    /\ UNCHANGED <<sceneVars, traced, choice, renderVars>>

\* sample_par returns the sum of the whole range
ReturnPar ==
    /\ par_sum = None
    /\ Len(tasks) = 1
    /\ tasks[1].next = tasks[1].hi
    /\ par_sum' = Some(tasks[1].sum)
    /\ UNCHANGED <<radiance, tasks, seq_sum>>
    /\ UNCHANGED <<sceneVars, traced, choice, renderVars>>

\* sample_seq on the same samples
ReturnSeq ==
    /\ seq_sum = None
    /\ seq_sum' = Some(ColorSum(radiance))
    /\ UNCHANGED <<radiance, tasks, par_sum>>
    /\ UNCHANGED <<sceneVars, traced, choice, renderVars>>

NextSum ==
    \/ \E t \in 1..Len(tasks) : Split(t)
    \/ \E t \in 1..Len(tasks) : Fold(t)
    \/ \E t \in 1..Len(tasks) : Join(t)
    \/ ReturnPar
    \/ ReturnSeq

SpecSum == InitSum /\ [][NextSum]_vars

RECURSIVE ExactRun(_, _, _, _)
ExactRun(cs, a, b, c) ==
    IF a > b THEN Black ELSE ExactAdd(cs[a][c], ExactRun(cs, a + 1, b, c))
ExactSums(cs) ==
    \A a \in 1..Len(cs), b \in 1..Len(cs), c \in 1..3 :
        a <= b => Representable(ExactRun(cs, a, b, c))

RECURSIVE Subtrees(_)
Subtrees(t) == IF t.leaf THEN {t} ELSE {t} \cup Subtrees(t.left) \cup Subtrees(t.right)
RECURSIVE ObjectsOf(_)
ObjectsOf(t) == IF t.leaf THEN <<t.obj>> ELSE ObjectsOf(t.left) \o ObjectsOf(t.right)

\* on one axis, [the least min, the greatest max] of the boxes of the objects
Hull(objs, axis) ==
    LET ivs == {AabbGet(ObjAabb(objs[n]), axis) : n \in 1..Len(objs)}
        lo == CHOOSE a \in ivs : \A b \in ivs : FLe(a.min, b.min)
        hi == CHOOSE a \in ivs : \A b \in ivs : FGe(a.max, b.max)
    IN  Interval(lo.min, hi.max)

\* C11: every node of the built tree caches exactly the merged box of the
\* objects beneath it, on each axis [the least min, the greatest max] of
\* their boxes and nothing more; a Leaf's box is its object's aabb(), also
\* when the object does not contain the origin.
C11_NodeBoxIsExactHull ==
    res.op = "from_list" =>
        \A t \in Subtrees(bvh.val) :
            /\ \A n \in 1..3 : AabbGet(t.bbox, Axes[n]) = Hull(ObjectsOf(t), Axes[n])
            /\ t.leaf => t.bbox = ObjAabb(t.obj)

\* a contains b on every axis
IntervalWithin(a, b) == FLe(a.min, b.min) /\ FGe(a.max, b.max)
BoxWithin(a, b) == \A n \in 1..3 : IntervalWithin(AabbGet(a, Axes[n]), AabbGet(b, Axes[n]))

\* C12: in every built tree each Interior node's box contains, on every
\* axis, the boxes of both its children, and each Leaf's box contains its
\* object's aabb().
C12_NodeBoxContainsChildren ==
    res.op = "from_list" =>
        \A t \in Subtrees(bvh.val) :
            IF t.leaf THEN BoxWithin(t.bbox, ObjAabb(t.obj))
            ELSE BoxWithin(t.bbox, t.left.bbox) /\ BoxWithin(t.bbox, t.right.bbox)
C12_Witness ==
    /\ res.op = "from_list"
    /\ ~bvh.val.leaf
    /\ ~bvh.val.right.leaf
    /\ bvh.val.bbox # bvh.val.left.bbox
    /\ bvh.val.bbox # bvh.val.right.bbox
    /\ BoxWithin(bvh.val.bbox, bvh.val.left.bbox)
    /\ BoxWithin(bvh.val.bbox, bvh.val.right.bbox)

\* the extent of a box on an axis
Extent(box, axis) == IntervalSize(AabbGet(box, axis))
Greatest(box, axis) == \A n \in 1..3 : FGe(Extent(box, axis), Extent(box, Axes[n]))

\* C13 as stated: longest_axis returns an axis of greatest extent, and among
\* several of greatest extent X before Y before Z.
C13_LongestAxisTiesTowardX ==
    res.op = "longest_axis" =>
        /\ Greatest(res.box, res.axis)
        /\ res.axis = IF Greatest(res.box, "X") THEN "X"
                      ELSE IF Greatest(res.box, "Y") THEN "Y" ELSE "Z"

\* C13, amended: longest_axis returns an axis of greatest extent, and among
\* several of greatest extent Z before Y before X: X only when its extent is
\* strictly greater than both others.
C13_LongestAxisTiesTowardZ ==
    res.op = "longest_axis" =>
        /\ Greatest(res.box, res.axis)
        /\ res.axis = IF Greatest(res.box, "Z") THEN "Z"
                      ELSE IF Greatest(res.box, "Y") THEN "Y" ELSE "X"
C13_Witness ==
    /\ res.op = "longest_axis"
    /\ Extent(res.box, "X") = Extent(res.box, "Y")
    /\ FGt(Extent(res.box, "X"), Extent(res.box, "Z"))
    /\ res.axis = "Y"

(***************************************************************************)
(* Claims on the materials and on the end of ray_color and render          *)
(***************************************************************************)
\* C14: Dielectric.scatter always returns a result, of attenuation (1,1,1);
\* Lambertian.scatter always returns one, of attenuation the albedo;
\* Metal.scatter returns one exactly when dot(scattered direction, normal)
\* > 0, of attenuation the albedo; DiffuseLight.scatter returns nothing and
\* its emit returns its colour; emit of the other three returns nothing.
C14_ScatterAndEmitByMaterial ==
    (traced.some /\ traced.val.op = "scatter") =>
        LET m == traced.val.material
            sc == traced.val.scattered
            em == traced.val.emitted
        IN  /\ m.kind = "dielectric" => sc = Some(<<1, 1, 1>>) /\ em = None
            /\ m.kind = "lambertian" => sc = Some(m.albedo) /\ em = None
            /\ m.kind = "metal" =>
                   /\ sc.some <=> FGt(traced.val.dot, Zero)
                   /\ sc.some => sc.val = m.albedo
                   /\ em = None
            /\ m.kind = "diffuse_light" => sc = None /\ em = Some(m.color)
C14_Witness ==
    /\ traced.some
    /\ traced.val.op = "scatter"
    /\ traced.val.material.kind = "metal"
    /\ traced.val.dot = Zero
    /\ traced.val.scattered = None
    /\ traced.val.emitted = None

\* the f64 comparisons radius < 0.0 and radius >= 0.0: -0.0 equals 0.0
RadiusNegative(radius) == radius.neg /\ radius.mag > 0
RadiusAtLeastZero(radius) == ~radius.neg \/ radius.mag = 0
\* a ray that runs parallel to the plane of a quad or triangle
ParallelTo(obj, ray) ==
    obj.kind \in {"quad", "triangle"} /\ FDot(FVec(ray.direction), obj.normal) = Zero

\* C15: Sphere::new aborts for every negative radius and constructs a
\* sphere for every radius >= 0; a hit that misses, or whose ray is parallel
\* to the primitive's plane, is an absent result, never an error.
C15_SphereNewAbortsOnNegativeOnly ==
    /\ res.op = "sphere_new" =>
           /\ RadiusNegative(res.radius) => res.outcome.aborted
           /\ RadiusAtLeastZero(res.radius) =>
                  /\ ~res.outcome.aborted
                  /\ res.outcome.sphere.radius = res.radius.mag
    /\ res.op = "obj_hit" =>
           /\ res.hit.some \/ res.hit = None
           /\ ParallelTo(res.obj, res.ray) => res.hit = None

\* no ray of the run meets an emissive material
NoEmissive(meets) ==
    \A d \in DOMAIN meets : meets[d].hit => meets[d].material.kind # "diffuse_light"

\* C16: with no emissive material, a background of (0,0,0) and max_depth 0,
\* for any sample_count >= 1, render writes the header with the camera's
\* width and height and then img_width * img_height lines "0 0 0".
C16_AllBlack ==
    (pc # "idle" /\ cam.val.background = <<Black, Black, Black>>
        /\ args.val.max_depth = 0 /\ NoEmissive(args.val.world.meets)) =>
        /\ \A n \in 1..Len(out) :
               IF n = 1
               THEN /\ out[n].kind = "header"
                    /\ out[n].width = cam.val.img_width
                    /\ out[n].height = cam.val.img_height
               ELSE out[n].kind = "pixel" /\ out[n].rgb = <<0, 0, 0>>
        /\ pc = "done" => Len(out) = 1 + cam.val.img_width * cam.val.img_height
C16_Witness ==
    /\ pc = "done"
    /\ cam.val.background = <<Black, Black, Black>>
    /\ args.val.max_depth = 0
    /\ args.val.world.meets[1] = Meets(Matte, TRUE)
    /\ args.val.sample_count = 64
    /\ cam.val.img_width = 2
    /\ cam.val.img_height = 2
    /\ Len(out) = 5
    /\ \A n \in 2..5 : out[n].rgb = <<0, 0, 0>>

\* render runs on the calling thread and rayon runs every sample task to
\* its end: a step that can be taken is taken
SpecRenderFair == InitRender /\ [][NextRender]_vars /\ WF_vars(NextRender)

RECURSIVE SumOf(_, _)
SumOf(calls, field) ==
    IF calls = <<>> THEN 0 ELSE Head(calls)[field] + SumOf(Tail(calls), field)
CallsBounded ==
    (traced.some /\ traced.val.op = "ray_color") =>
        LET c == traced.val.calls
            d == traced.val.depth
        IN  /\ Len(c) <= d + 1
            /\ c[1].depth = d
            /\ \A n \in 2..Len(c) : c[n].depth = c[n - 1].depth - 1
            /\ \A n \in 1..Len(c) : c[n].depth \in 0..d
            /\ SumOf(c, "hits") <= d
            /\ SumOf(c, "scatters") <= d
RenderEnded ==
    /\ pc = "done"
    /\ flushed
    /\ Len(out) = 1 + cam.val.img_width * cam.val.img_height
    /\ out[Len(out)].i = cam.val.img_width - 1
    /\ out[Len(out)].j = cam.val.img_height - 1

Occurrences(objs, obj) == Cardinality({n \in 1..Len(objs) : objs[n] = obj})
FromListShape ==
    res.op = "from_list" =>
        /\ res.given # <<>>
        /\ bvh.val.leaf <=> Len(res.given) = 1
        /\ \A obj \in Prims :
               Occurrences(ObjectsOf(bvh.val), obj) = Occurrences(res.given, obj)
        /\ \A t \in Subtrees(bvh.val) :
               ~t.leaf =>
                   LET k == Len(ObjectsOf(t))
                       axis == LongestAxis(t.bbox)
                       lefts == ObjectsOf(t.left)
                       rights == ObjectsOf(t.right)
                   IN  /\ k >= 2
                       /\ Len(lefts) = k \div 2
                       /\ Len(rights) = k - (k \div 2)
                       /\ \A a \in 1..Len(lefts), b \in 1..Len(rights) :
                              FLe(AabbGet(ObjAabb(lefts[a]), axis).min,
                                  AabbGet(ObjAabb(rights[b]), axis).min)
EmptyAborts ==
    (list = <<>> /\ res'.op \in {"from_list", "from_list_abort"}) =>
        (res'.op = "from_list_abort" /\ bvh' = None)

\* C18: from_list over k objects yields a Leaf exactly when k = 1; for
\* k >= 2 an Interior node whose left subtree holds floor(k/2) objects and
\* whose right subtree holds the other k - floor(k/2), every object of the
\* left having a box minimum on the node's longest axis that is at most
\* that of every object of the right; every input object is in exactly one
\* leaf; and an empty input aborts.
C18_FromListShape == []FromListShape /\ [][EmptyAborts]_vars
C18_Witness ==
    /\ res.op = "from_list"
    /\ Len(res.given) = 3
    /\ list # res.given
    /\ ~bvh.val.leaf
    /\ bvh.val.left.leaf
    /\ ~bvh.val.right.leaf
    /\ bvh.val.right.left.obj # bvh.val.right.right.obj
    /\ bvh.val.left.obj # bvh.val.right.left.obj

\* C19: at every Interior node whose own box the ray hits, hit queries the
\* left child over the whole interval, then the right child over
\* (ray_t.min, t_left) when the left child hit at t_left and over the whole
\* interval otherwise; the node returns the right child's hit whenever the
\* right child hits, the left child's when only the left hits, nothing when
\* neither hits; so the t it returns is never greater than the t of either
\* child's hit.
C19_LeftThenNarrowedRight ==
    res.op = "hit" =>
        /\ (~bvh.val.leaf /\ AabbHit(bvh.val.bbox, res.ray, res.ray_t)) =>
               /\ res.visits # <<>>
               /\ res.visits[1].node = bvh.val
               /\ res.visits[1].ray_t = res.ray_t
               /\ res.visits[1].ret = res.bvh
        /\ \A n \in 1..Len(res.visits) :
               LET v == res.visits[n]
               IN  /\ ~v.node.leaf
                   /\ AabbHit(v.node.bbox, res.ray, v.ray_t)
                   /\ v.left_t = v.ray_t
                   /\ v.right_t = IF v.left.some
                                  THEN Interval(v.ray_t.min, v.left.val.t)
                                  ELSE v.ray_t
                   /\ v.right.some => v.ret = v.right
                   /\ (v.left.some /\ ~v.right.some) => v.ret = v.left
                   /\ (~v.left.some /\ ~v.right.some) => v.ret = None
                   /\ (v.ret.some /\ v.left.some) => FLe(v.ret.val.t, v.left.val.t)
                   /\ (v.ret.some /\ v.right.some) => FLe(v.ret.val.t, v.right.val.t)
C19_Witness ==
    /\ res.op = "hit"
    /\ \E n \in 1..Len(res.visits) :
           LET v == res.visits[n]
           IN  /\ v.left.some
               /\ v.right.some
               /\ FLt(v.right.val.t, v.left.val.t)
               /\ v.right_t # v.ray_t

\* the point p lies in the box, bounds included
BoxHolds(box, p) ==
    \A n \in 1..3 : Contains(AabbGet(box, Axes[n]), FInt(p[n]))
Corners(quad) ==
    {quad.origin, VAdd(quad.origin, quad.u), VAdd(quad.origin, quad.v),
     VAdd(VAdd(quad.origin, quad.u), quad.v)}

\* C20: the box that Quad::new computes contains the four corners origin,
\* origin + u, origin + v and origin + u + v of the quad, for edge vectors
\* u and v of any direction.
C20_QuadBoxHoldsCorners ==
    \A n \in 1..Len(list) :
        list[n].kind = "quad" =>
            \A p \in Corners(list[n]) : BoxHolds(ObjAabb(list[n]), p)

====
